---- MODULE Spec2Model ----
(***************************************************************************)
(* Vibrations: the damped-oscillator evaluator analyse_vibrations, the     *)
(* figure builder create_plot and the Streamlit script main of ex1.py.     *)
(*                                                                         *)
(* Numbers.  The program computes in IEEE-754 binary64 (Python floats and  *)
(* numpy float64).  The model keeps that format's structure: a sign, a     *)
(* normalised mantissa, a binary exponent with binary64's range, the       *)
(* special values inf and nan, and one round-to-nearest-even after every   *)
(* operation; only the mantissa is MantBits wide instead of 53.  Decimal   *)
(* inputs (slider values, arguments) are given in hundredths.              *)
(***************************************************************************)
EXTENDS Integers, Sequences, FiniteSets, TLC

\* Mantissa width of the model's floating-point format (binary64: 53).
MantBits == 12
\* Samples of the time grid (np.linspace(0, t_max, 2000), scaled down).
NumSamples == 5
\* User interactions (slider moves, button presses) in one session.
MaxInteractions == 2

----------------------------------------------------------------------------
(* Floating point *)

P == MantBits
\* Largest binary exponent of a finite binary64, and the smallest (subnormal).
EMax == 2^10 - 1
EMin == -(2^10) - 50

NaN == [k |-> "nan", m |-> 0, e |-> 0]
Zero == [k |-> "fin", m |-> 0, e |-> 0]
Inf(s) == [k |-> "inf", m |-> s, e |-> 0]

IsNaN(x) == x.k = "nan"
IsInf(x) == x.k = "inf"
IsFinite(x) == x.k = "fin"
IsZero(x) == x.k = "fin" /\ x.m = 0
Sign(x) == IF x.m < 0 THEN -1 ELSE 1
AbsInt(n) == IF n < 0 THEN -n ELSE n

RECURSIVE BitLen(_)
BitLen(a) == IF a = 0 THEN 0 ELSE 1 + BitLen(a \div 2)

\* A finite value s*a*2^e with a normalised: overflow gives inf, a value under
\* the smallest subnormal gives zero.
Pack(s, a, e) ==
  IF e + P - 1 > EMax THEN Inf(s)
  ELSE IF e + P - 1 < EMin THEN Zero
  ELSE [k |-> "fin", m |-> s * a, e |-> e]

\* s*a*2^e rounded to P bits, to nearest, ties to even.
Round(s, a, e) ==
  IF a = 0 THEN Zero
  ELSE LET L == BitLen(a)
       IN IF L <= P THEN Pack(s, a * 2^(P - L), e - (P - L))
          ELSE LET sh == L - P
                   q == a \div 2^sh
                   r == a % 2^sh
                   h == 2^(sh - 1)
                   q1 == IF r > h \/ (r = h /\ q % 2 = 1) THEN q + 1 ELSE q
               IN IF q1 = 2^P THEN Pack(s, 2^(P - 1), e + sh + 1)
                  ELSE Pack(s, q1, e + sh)

FromInt(n) == Round(IF n < 0 THEN -1 ELSE 1, AbsInt(n), 0)

Neg(x) == IF IsNaN(x) THEN NaN ELSE [x EXCEPT !.m = -x.m]
Abs(x) == IF IsNaN(x) THEN NaN ELSE [x EXCEPT !.m = AbsInt(x.m)]

Mul(x, y) ==
  IF IsNaN(x) \/ IsNaN(y) THEN NaN
  ELSE IF IsInf(x) \/ IsInf(y)
       THEN IF IsZero(x) \/ IsZero(y) THEN NaN ELSE Inf(Sign(x) * Sign(y))
  ELSE Round(Sign(x) * Sign(y), AbsInt(x.m) * AbsInt(y.m), x.e + y.e)

\* x + y for finite non-zero x, y with x.e >= y.e.
AddOrdered(x, y) ==
  LET d == x.e - y.e
  IN IF d > P + 2 THEN x
     ELSE LET n == x.m * 2^d + y.m
          IN Round(IF n < 0 THEN -1 ELSE 1, AbsInt(n), y.e)

Add(x, y) ==
  IF IsNaN(x) \/ IsNaN(y) THEN NaN
  ELSE IF IsInf(x) THEN (IF IsInf(y) /\ y.m # x.m THEN NaN ELSE x)
  ELSE IF IsInf(y) THEN y
  ELSE IF IsZero(x) THEN y
  ELSE IF IsZero(y) THEN x
  ELSE IF x.e >= y.e THEN AddOrdered(x, y) ELSE AddOrdered(y, x)

Sub(x, y) == Add(x, Neg(y))

\* numpy's float64 division: x/0 is inf (nan for 0/0) with a RuntimeWarning,
\* never an exception.
Div(x, y) ==
  IF IsNaN(x) \/ IsNaN(y) THEN NaN
  ELSE IF IsInf(x) THEN (IF IsInf(y) THEN NaN ELSE Inf(Sign(x) * Sign(y)))
  ELSE IF IsInf(y) THEN Zero
  ELSE IF IsZero(y) THEN (IF IsZero(x) THEN NaN ELSE Inf(Sign(x)))
  ELSE IF IsZero(x) THEN Zero
  ELSE LET n == AbsInt(x.m) * 2^(P + 2)
           q == n \div AbsInt(y.m)
           sticky == IF n % AbsInt(y.m) = 0 THEN 0 ELSE 1
       IN Round(Sign(x) * Sign(y), 2 * q + sticky, x.e - y.e - (P + 2) - 1)

RECURSIVE ISqrtFrom(_, _)
\* Newton's iteration from an upper estimate g: floor(sqrt(n)).
ISqrtFrom(n, g) ==
  LET g1 == (g + n \div g) \div 2
  IN IF g1 >= g THEN g ELSE ISqrtFrom(n, g1)

ISqrt(n) == IF n = 0 THEN 0 ELSE ISqrtFrom(n, 2^((BitLen(n) + 1) \div 2))

\* np.sqrt: nan (with a RuntimeWarning) for a negative argument.
Sqrt(x) ==
  IF IsNaN(x) THEN NaN
  ELSE IF IsZero(x) THEN Zero
  ELSE IF x.m < 0 THEN NaN
  ELSE IF IsInf(x) THEN x
  ELSE LET sh == IF (x.e - (P + 1)) % 2 = 0 THEN P + 1 ELSE P + 2
           n == x.m * 2^sh
           s == ISqrt(n)
           sticky == IF s * s = n THEN 0 ELSE 1
       IN Round(1, 2 * s + sticky, (x.e - sh) \div 2 - 1)

\* Comparisons: every comparison with nan is false.
Lt(x, y) ==
  IF IsNaN(x) \/ IsNaN(y) THEN FALSE
  ELSE IF IsInf(x) THEN x.m < 0 /\ ~(IsInf(y) /\ y.m < 0)
  ELSE IF IsInf(y) THEN y.m > 0
  ELSE IF x.m < 0 /\ y.m < 0 THEN x.e > y.e \/ (x.e = y.e /\ x.m < y.m)
  ELSE IF x.m > 0 /\ y.m > 0 THEN x.e < y.e \/ (x.e = y.e /\ x.m < y.m)
  ELSE x.m < y.m

Le(x, y) == ~IsNaN(x) /\ ~IsNaN(y) /\ ~Lt(y, x)
Gt(x, y) == Lt(y, x)

----------------------------------------------------------------------------
(* Elementary functions (np.exp, np.cos, np.sin, np.cosh, np.sinh): argument
   reduction and a Taylor series in fixed point with Fx fractional bits, the
   result rounded to the format.  Arguments of cos and sin stay below
   2^(30 - Fx) in magnitude for every input of the model. *)

Fx == MantBits + 2
\* ln 2 and pi/2 with 28 fractional bits, split in a high part of Fx bits and
\* the rest.
Ln2Hi == 186065279 \div 2^(28 - Fx)
Ln2Lo == 186065279 % 2^(28 - Fx)
HalfPiHi == 421657428 \div 2^(28 - Fx)
HalfPiLo == 421657428 % 2^(28 - Fx)

\* A finite value as a fixed-point integer, truncated toward zero.
ToFx(x) ==
  LET sh == x.e + Fx
  IN IF sh >= 0 THEN x.m * 2^sh
     ELSE IF -sh > P THEN 0
     ELSE Sign(x) * (AbsInt(x.m) \div 2^(-sh))

RECURSIVE ExpSeries(_, _, _, _)
\* sum of r^j/j! for j >= n-1, given the term of index n-1.
ExpSeries(r, term, n, acc) ==
  IF term = 0 \/ n > 12 THEN acc
  ELSE LET t1 == (term * r) \div (n * 2^Fx)
       IN ExpSeries(r, t1, n + 1, acc + t1)

\* exp(x) * 2^scale for finite x.
ExpScaled(x, scale) ==
  IF x.m # 0 /\ x.e + P > 11 THEN (IF x.m > 0 THEN Inf(1) ELSE Zero)
  ELSE LET X == ToFx(x)
           k == X \div Ln2Hi
           r == X - k * Ln2Hi - (k * Ln2Lo) \div 2^(28 - Fx)
           s == ExpSeries(r, 2^Fx, 1, 2^Fx)
       IN Round(1, s, k - Fx + scale)

Exp(x) ==
  IF IsNaN(x) THEN NaN
  ELSE IF IsInf(x) THEN (IF x.m > 0 THEN x ELSE Zero)
  ELSE ExpScaled(x, 0)

RECURSIVE TrigSeries(_, _, _, _)
\* alternating series: term is the term of index n-2 (n = 2, 4, ... for cos,
\* n = 3, 5, ... for sin), r2 the squared argument.
TrigSeries(r2, term, n, acc) ==
  IF term = 0 \/ n > 13 THEN acc
  ELSE LET t1 == -((term * r2) \div ((n - 1) * n * 2^Fx))
       IN TrigSeries(r2, t1, n + 2, acc + t1)

\* <<cos, sin>> of a finite x, as fixed-point integers.
CosSinFx(x) ==
  LET X == ToFx(x)
      j == (X + HalfPiHi \div 2) \div HalfPiHi
      r == X - j * HalfPiHi - (j * HalfPiLo) \div 2^(28 - Fx)
      r2 == (r * r) \div 2^Fx
      c == TrigSeries(r2, 2^Fx, 2, 2^Fx)
      s == TrigSeries(r2, r, 3, r)
      quadrant == j % 4
  IN CASE quadrant = 0 -> <<c, s>>
       [] quadrant = 1 -> <<-s, c>>
       [] quadrant = 2 -> <<-c, -s>>
       [] OTHER -> <<s, -c>>

FromFx(n) == Round(IF n < 0 THEN -1 ELSE 1, AbsInt(n), -Fx)

Cos(x) == IF ~IsFinite(x) THEN NaN ELSE FromFx(CosSinFx(x)[1])
Sin(x) == IF ~IsFinite(x) THEN NaN ELSE FromFx(CosSinFx(x)[2])

Half == Round(1, 1, -1)
\* Above this argument exp(-x) is below half a unit in the last place of exp(x).
CoshSplit == FromInt(P)

Cosh(x) ==
  IF IsNaN(x) THEN NaN
  ELSE IF IsInf(x) THEN Inf(1)
  ELSE IF Lt(CoshSplit, Abs(x)) THEN ExpScaled(Abs(x), -1)
  ELSE Mul(Half, Add(Exp(x), Exp(Neg(x))))

Sinh(x) ==
  IF IsNaN(x) THEN NaN
  ELSE IF IsInf(x) THEN x
  ELSE IF Lt(CoshSplit, Abs(x))
       THEN (IF x.m < 0 THEN Neg(ExpScaled(Abs(x), -1)) ELSE ExpScaled(x, -1))
  ELSE Mul(Half, Sub(Exp(x), Exp(Neg(x))))

----------------------------------------------------------------------------
(* numpy array operations *)

\* A decimal given in hundredths (2.0 is 200) as a float.
Dec(h) == Div(FromInt(h), FromInt(100))

\* np.linspace(start, stop, num): num samples, step (stop - start)/(num - 1),
\* sample i at i*step + start, the last one set to stop itself.
\* A variant of linspace that leaves the endpoint out (endpoint=False).
linspaceNoEndpoint(start, stop, num) ==
  LET step == Div(Sub(stop, start), FromInt(num))
  IN [i \in 1..num |-> Add(Mul(FromInt(i - 1), step), start)]

linspace(start, stop, num) ==
  LET step == Div(Sub(stop, start), FromInt(num - 1))
  IN [i \in 1..num |->
        IF i = num THEN stop ELSE Add(Mul(FromInt(i - 1), step), start)]

RECURSIVE NpMaxFrom(_, _, _)
NpMaxFrom(a, i, cur) ==
  IF i > Len(a) THEN cur
  ELSE IF IsNaN(a[i]) THEN NaN
  ELSE NpMaxFrom(a, i + 1, IF Gt(a[i], cur) THEN a[i] ELSE cur)

\* np.max of a non-empty array: nan as soon as one element is nan.
NpMax(a) == IF IsNaN(a[1]) THEN NaN ELSE NpMaxFrom(a, 2, a[1])

NpAbs(a) == [i \in 1..Len(a) |-> Abs(a[i])]

RECURSIVE PyMaxFrom(_, _, _)
PyMaxFrom(a, i, cur) ==
  IF i > Len(a) THEN cur
  ELSE PyMaxFrom(a, i + 1, IF Gt(a[i], cur) THEN a[i] ELSE cur)

\* Python's builtin max(a1, a2, ...): keeps the first argument until a later
\* one compares greater, so a nan after the first argument is passed over.
PyMax(a) == PyMaxFrom(a, 2, a[1])

----------------------------------------------------------------------------
(* analyse_vibrations *)

One == FromInt(1)

\* Cas 1: x0*cos(w*t) + (v0/w)*sin(w*t), w = omega_0*sqrt(1 - 0**2)
\* A variant of the undamped response with the sine and cosine exchanged.
XSansSwapped(omega_0, x0, v0, t) ==
  LET xi_sans == Zero
      omega_sans == Mul(omega_0, Sqrt(Sub(One, Mul(xi_sans, xi_sans))))
  IN [i \in 1..Len(t) |->
        Add(Mul(x0, Sin(Mul(omega_sans, t[i]))),
            Mul(Div(v0, omega_sans), Cos(Mul(omega_sans, t[i]))))]

XSans(omega_0, x0, v0, t) ==
  LET xi_sans == Zero
      omega_sans == Mul(omega_0, Sqrt(Sub(One, Mul(xi_sans, xi_sans))))
  IN [i \in 1..Len(t) |->
        Add(Mul(x0, Cos(Mul(omega_sans, t[i]))),
            Mul(Div(v0, omega_sans), Sin(Mul(omega_sans, t[i]))))]

OmegaDSous(omega_0, xi_sous) ==
  Mul(omega_0, Sqrt(Sub(One, Mul(xi_sous, xi_sous))))

\* Cas 2: exp(-xi*w0*t) * (x0*cos(wd*t) + (v0 + x0*xi*w0)/wd * sin(wd*t))
XSous(omega_0, x0, v0, xi_sous, t) ==
  LET omega_d_sous == OmegaDSous(omega_0, xi_sous)
      coef == Div(Add(v0, Mul(Mul(x0, xi_sous), omega_0)), omega_d_sous)
  IN [i \in 1..Len(t) |->
        Mul(Exp(Mul(Mul(Neg(xi_sous), omega_0), t[i])),
            Add(Mul(x0, Cos(Mul(omega_d_sous, t[i]))),
                Mul(coef, Sin(Mul(omega_d_sous, t[i])))))]

\* exp(-xi*w0*t) * sqrt(x0**2 + ((v0 + x0*xi*w0)/wd)**2)
\* A variant of the envelope whose amplitude leaves the velocity term out.
EnveloppeSousPosNoVelocity(omega_0, x0, v0, xi_sous, t) ==
  [i \in 1..Len(t) |->
     Mul(Exp(Mul(Mul(Neg(xi_sous), omega_0), t[i])), Abs(x0))]

EnveloppeSousPos(omega_0, x0, v0, xi_sous, t) ==
  LET omega_d_sous == OmegaDSous(omega_0, xi_sous)
      coef == Div(Add(v0, Mul(Mul(x0, xi_sous), omega_0)), omega_d_sous)
      amp == Sqrt(Add(Mul(x0, x0), Mul(coef, coef)))
  IN [i \in 1..Len(t) |->
        Mul(Exp(Mul(Mul(Neg(xi_sous), omega_0), t[i])), amp)]

EnveloppeSousNeg(enveloppe_sous_pos) ==
  [i \in 1..Len(enveloppe_sous_pos) |-> Neg(enveloppe_sous_pos[i])]

\* Cas 3: exp(-w0*t) * (x0*(1 + w0*t) + v0*t)
XCritique(omega_0, x0, v0, t) ==
  [i \in 1..Len(t) |->
     Mul(Exp(Mul(Neg(omega_0), t[i])),
         Add(Mul(x0, Add(One, Mul(omega_0, t[i]))), Mul(v0, t[i])))]

OmegaDSur(omega_0, xi_suramorti) ==
  Mul(omega_0, Sqrt(Sub(Mul(xi_suramorti, xi_suramorti), One)))

\* Cas 4: exp(-xi*w0*t) * (x0*cosh(wd*t) + (v0 + x0*xi*w0)/wd * sinh(wd*t))
XSuramorti(omega_0, x0, v0, xi_suramorti, t) ==
  LET omega_d_sur == OmegaDSur(omega_0, xi_suramorti)
      coef == Div(Add(v0, Mul(Mul(x0, xi_suramorti), omega_0)), omega_d_sur)
  IN [i \in 1..Len(t) |->
        Mul(Exp(Mul(Mul(Neg(xi_suramorti), omega_0), t[i])),
            Add(Mul(x0, Cosh(Mul(omega_d_sur, t[i]))),
                Mul(coef, Sinh(Mul(omega_d_sur, t[i])))))]

AmplitudeMax(x_sans, x_sous, x_critique, x_suramorti) ==
  PyMax(<<NpMax(NpAbs(x_sans)), NpMax(NpAbs(x_sous)),
          NpMax(NpAbs(x_critique)), NpMax(NpAbs(x_suramorti))>>)

\* The tuple analyse_vibrations returns, as a record.  The function has no
\* raise and no validation: every call returns.
analyse_vibrations(omega_0, x0, v0, xi_sous, xi_suramorti, t_max) ==
  LET t == linspace(Zero, t_max, NumSamples)
      x_sans == XSans(omega_0, x0, v0, t)
      x_sous == XSous(omega_0, x0, v0, xi_sous, t)
      enveloppe_sous_pos == EnveloppeSousPos(omega_0, x0, v0, xi_sous, t)
      x_critique == XCritique(omega_0, x0, v0, t)
      x_suramorti == XSuramorti(omega_0, x0, v0, xi_suramorti, t)
  IN [outcome |-> "returned",
      t |-> t,
      x_sans |-> x_sans,
      x_sous |-> x_sous,
      x_critique |-> x_critique,
      x_suramorti |-> x_suramorti,
      enveloppe_sous_pos |-> enveloppe_sous_pos,
      enveloppe_sous_neg |-> EnveloppeSousNeg(enveloppe_sous_pos),
      amplitude_max |-> AmplitudeMax(x_sans, x_sous, x_critique, x_suramorti)]

----------------------------------------------------------------------------
(* Formatting and figures *)

\* pi with 28 fractional bits, rounded to the format (np.pi).
Pi == Round(1, 843314857, -28)

RECURSIVE Pow10(_)
Pow10(d) == IF d = 0 THEN 1 ELSE 10 * Pow10(d - 1)

\* f"{x:.<d>f}": the decimal with d digits after the point nearest to x, as
\* the integer x*10^d rounded half to even; "nan" and "inf" print as such.
Fmt(x, d) ==
  IF ~IsFinite(x) THEN [k |-> x.k, n |-> Sign(x)]
  ELSE IF x.e >= 0 THEN [k |-> "fin", n |-> x.m * 2^(x.e) * Pow10(d)]
  ELSE IF -x.e > 30 THEN [k |-> "fin", n |-> 0]
  ELSE LET a == AbsInt(x.m) * Pow10(d)
           q == a \div 2^(-x.e)
           r == a % 2^(-x.e)
           h == 2^(-x.e - 1)
           q1 == IF r > h \/ (r = h /\ q % 2 = 1) THEN q + 1 ELSE q
       IN [k |-> "fin", n |-> Sign(x) * q1]

\* The sample an annotation points at: index k of the 2000 samples, on the
\* model's grid (1-based).
AnnotIndex(k) == (k * NumSamples) \div 2000 + 1

\* min(3, t_max)
PyMin(a, b) == IF Lt(b, a) THEN b ELSE a

\* What create_plot puts in the figure it returns: the six curves on the time
\* grid, the legend's damping ratios, the annotations (full view only), the
\* y limits from amplitude_max and the x limits (zoom only).
create_plot(r, t_max, xi_sous, xi_suramorti, zoom) ==
  LET y_range == Mul(FromInt(2), r.amplitude_max)
      y_margin == Mul(Dec(10), r.amplitude_max)
  IN [zoom |-> zoom,
      t |-> r.t,
      x_sans |-> r.x_sans,
      x_sous |-> r.x_sous,
      x_critique |-> r.x_critique,
      x_suramorti |-> r.x_suramorti,
      enveloppe_sous_pos |-> r.enveloppe_sous_pos,
      enveloppe_sous_neg |-> r.enveloppe_sous_neg,
      legend |-> <<xi_sous, xi_suramorti>>,
      annotations |->
        IF zoom THEN <<>>
        ELSE << <<r.x_sans[AnnotIndex(200)],
                  Mul(t_max, Dec(40)), Mul(Dec(70), y_range)>>,
                <<r.x_sous[AnnotIndex(300)],
                  Mul(t_max, Dec(50)), Mul(Dec(50), y_range)>>,
                <<r.x_critique[AnnotIndex(150)],
                  Mul(t_max, Dec(30)), Mul(Dec(20), y_range)>>,
                <<r.x_suramorti[AnnotIndex(250)],
                  Mul(t_max, Dec(60)), Mul(Dec(30), y_range)>> >>,
      ylim |-> <<Sub(Neg(r.amplitude_max), y_margin),
                 Add(r.amplitude_max, y_margin)>>,
      xlim |-> IF zoom THEN <<Zero, PyMin(FromInt(3), t_max)>> ELSE <<>>]

\* fig.savefig(name, dpi=300, bbox_inches='tight'): the image file's content.
savefig(fig) == [dpi |-> 300, bbox_inches |-> "tight", chart |-> fig]

----------------------------------------------------------------------------
(* The sliders of main: min_value, max_value, value, step, in hundredths *)

SliderOmega0 == [min |-> 10, max |-> 1000, value |-> 200, step |-> 10]
SliderX0 == [min |-> 10, max |-> 1000, value |-> 100, step |-> 10]
SliderV0 == [min |-> -500, max |-> 500, value |-> 50, step |-> 10]
SliderTMax == [min |-> 200, max |-> 2000, value |-> 800, step |-> 100]
\* A variant of the xi_sous slider over the closed interval [0, 1].
SliderXiSousClosed == [min |-> 0, max |-> 100, value |-> 20, step |-> 1]
SliderXiSous == [min |-> 1, max |-> 99, value |-> 20, step |-> 1]
SliderXiSuramorti == [min |-> 101, max |-> 300, value |-> 150, step |-> 10]

Sliders ==
  [omega_0 |-> SliderOmega0, x0 |-> SliderX0, v0 |-> SliderV0,
   t_max |-> SliderTMax, xi_sous |-> SliderXiSous,
   xi_suramorti |-> SliderXiSuramorti]

SliderNames == DOMAIN Sliders

\* The values a st.slider hands back after the user moved it: the positions
\* min + k*step up to max, and max itself.
Positions(s) ==
  {v \in s.min..s.max : (v - s.min) % s.step = 0 \/ v = s.max}

\* The positions the user moves a slider to in the model: the two lowest ones
\* and the highest.
Picks(s) ==
  {v \in Positions(s) :
     \/ Cardinality({u \in Positions(s) : u < v}) < 2
     \/ v = s.max}

SliderPicks == [n \in SliderNames |-> Picks(Sliders[n])]

Defaults == [n \in SliderNames |-> Sliders[n].value]

----------------------------------------------------------------------------
(* State *)

VARIABLES
  call_args,    \* a direct call of analyse_vibrations: its arguments (hundredths)
  call_ret,     \* ... and what the call gave back
  widgets,      \* the session's slider values (hundredths)
  clicked,      \* st.sidebar.button's value in the current run
  pc,           \* where the current run of main stands
  params,       \* main's locals omega_0, x0, v0, t_max, xi_sous, xi_suramorti
  res,          \* main's locals t, x_sans, ..., amplitude_max
  fig_complet,  \* main's local fig_complet: a figure number, 0 when unbound
  fig_zoom,     \* main's local fig_zoom
  figs,         \* pyplot's open figures: number -> content
  display,      \* what the current run has rendered so far
  files,        \* the image files on disk
  written,      \* the files written by the run the last interaction started
  failed,       \* that run ended in an exception
  interactions  \* user interactions so far

evalVars == <<call_args, call_ret>>
uiVars == <<widgets, clicked, pc, params, res, fig_complet, fig_zoom, figs,
            display, files, written, failed, interactions>>
vars == <<call_args, call_ret, widgets, clicked, pc, params, res, fig_complet,
          fig_zoom, figs, display, files, written, failed, interactions>>

Pending == [outcome |-> "pending"]

NoDisplay == [complet |-> <<>>, zoom |-> <<>>, metrics |-> <<>>, success |-> FALSE]
NoFiles == [complet |-> <<>>, zoom |-> <<>>]

\* The session as the page is first loaded: the script is about to run with
\* the sliders at their value= defaults and the button not pressed.
InitUI ==
  /\ widgets = Defaults
  /\ clicked = FALSE
  /\ pc = "start"
  /\ params = Defaults
  /\ res = Pending
  /\ fig_complet = 0
  /\ fig_zoom = 0
  /\ figs = <<>>
  /\ display = NoDisplay
  /\ files = NoFiles
  /\ written = {}
  /\ failed = FALSE
  /\ interactions = 0

----------------------------------------------------------------------------
(* The evaluator called directly, on any arguments *)

OmegaArgs == {0, 10, 200, 10000}
X0Args == {-100, 150}
V0Args == {-500, 50}
XiSousArgs == {0, 20, 50, 99, 100}
XiSurArgs == {100, 101, 150}
TMaxArgs == {300, 800}

ArgSets ==
  [omega_0 : OmegaArgs, x0 : X0Args, v0 : V0Args,
   xi_sous : XiSousArgs, xi_suramorti : XiSurArgs, t_max : TMaxArgs]

\* The parameter sets the specification calls valid.
Valid(a) ==
  /\ a.omega_0 > 0
  /\ a.xi_sous > 0 /\ a.xi_sous < 100
  /\ a.xi_suramorti > 100
  /\ a.t_max > 0

Evaluate(a) ==
  analyse_vibrations(Dec(a.omega_0), Dec(a.x0), Dec(a.v0),
                     Dec(a.xi_sous), Dec(a.xi_suramorti), Dec(a.t_max))

InitEval ==
  /\ call_args \in ArgSets
  /\ call_ret = Pending
  /\ InitUI

Call ==
  /\ call_ret = Pending
  /\ call_ret' = Evaluate(call_args)
  /\ UNCHANGED <<call_args, uiVars>>

NextEval == Call

SpecEval == InitEval /\ [][NextEval]_vars

----------------------------------------------------------------------------
(* main: one run of the script per user interaction *)

\* pyplot numbers a new figure one past the highest open one.
NewFigNum(open) ==
  IF DOMAIN open = {} THEN 1
  ELSE 1 + CHOOSE n \in DOMAIN open : \A k \in DOMAIN open : k <= n

\* plt.subplots: the figure joins pyplot's open figures.
OpenFig(open, num, fig) ==
  [n \in DOMAIN open \cup {num} |-> IF n = num THEN fig ELSE open[n]]

\* plt.close(fig)
CloseFig(open, num) == [n \in DOMAIN open \ {num} |-> open[n]]

\* The arguments main passes to analyse_vibrations (lines 146-148).
ComputeResult(p) ==
  analyse_vibrations(Dec(p.omega_0), Dec(p.x0), Dec(p.v0),
                     Dec(p.xi_sous), Dec(p.xi_suramorti), Dec(p.t_max))

PlotOf(r, p, zoom) ==
  create_plot(r, Dec(p.t_max), p.xi_sous, p.xi_suramorti, zoom)

\* The six st.metric values (lines 151-152, 179-188).
MetricsOf(r, p) ==
  LET omega_0 == Dec(p.omega_0)
      omega_d_sous == OmegaDSous(omega_0, Dec(p.xi_sous))
      omega_d_sur == OmegaDSur(omega_0, Dec(p.xi_suramorti))
  IN [amplitude_max |-> Fmt(r.amplitude_max, 3),
      omega_0 |-> Fmt(omega_0, 2),
      periode_sous |-> Fmt(Div(Mul(FromInt(2), Pi), omega_d_sous), 3),
      omega_d_sous |-> Fmt(omega_d_sous, 3),
      omega_d_sur |-> Fmt(omega_d_sur, 3),
      decroissance |-> Fmt(omega_0, 2)]

\* Lines 114-143: the run starts and the sliders hand back the session's values.
ReadSliders ==
  /\ pc = "start"
  /\ params' = widgets
  /\ display' = NoDisplay
  /\ pc' = "compute"
  /\ UNCHANGED <<widgets, clicked, res, fig_complet, fig_zoom, figs, files,
                 written, failed, interactions>>
  /\ UNCHANGED evalVars

\* Lines 146-152.
\* A variant of the computation step that reuses the result of the run before.
ComputeReused ==
  /\ pc = "compute"
  /\ res' = IF res = Pending THEN ComputeResult(params) ELSE res
  /\ pc' = "plot_complet"
  /\ UNCHANGED <<widgets, clicked, params, fig_complet, fig_zoom, figs,
                 display, files, written, failed, interactions>>
  /\ UNCHANGED evalVars

Compute ==
  /\ pc = "compute"
  /\ res' = ComputeResult(params)
  /\ pc' = "plot_complet"
  /\ UNCHANGED <<widgets, clicked, params, fig_complet, fig_zoom, figs,
                 display, files, written, failed, interactions>>
  /\ UNCHANGED evalVars

\* Lines 159-161.
PlotComplet ==
  /\ pc = "plot_complet"
  /\ fig_complet' = NewFigNum(figs)
  /\ figs' = OpenFig(figs, NewFigNum(figs), PlotOf(res, params, FALSE))
  /\ pc' = "show_complet"
  /\ UNCHANGED <<widgets, clicked, params, res, fig_zoom, display, files,
                 written, failed, interactions>>
  /\ UNCHANGED evalVars

\* Lines 162-163: st.pyplot(fig_complet); plt.close(fig_complet).
ShowComplet ==
  /\ pc = "show_complet"
  /\ display' = [display EXCEPT !.complet = <<figs[fig_complet]>>]
  /\ figs' = CloseFig(figs, fig_complet)
  /\ pc' = "plot_zoom"
  /\ UNCHANGED <<widgets, clicked, params, res, fig_complet, fig_zoom, files,
                 written, failed, interactions>>
  /\ UNCHANGED evalVars

\* Lines 167-169.
PlotZoom ==
  /\ pc = "plot_zoom"
  /\ fig_zoom' = NewFigNum(figs)
  /\ figs' = OpenFig(figs, NewFigNum(figs), PlotOf(res, params, TRUE))
  /\ pc' = "show_zoom"
  /\ UNCHANGED <<widgets, clicked, params, res, fig_complet, display, files,
                 written, failed, interactions>>
  /\ UNCHANGED evalVars

\* Lines 170-171: st.pyplot(fig_zoom); plt.close(fig_zoom).
ShowZoom ==
  /\ pc = "show_zoom"
  /\ display' = [display EXCEPT !.zoom = <<figs[fig_zoom]>>]
  /\ figs' = CloseFig(figs, fig_zoom)
  /\ pc' = "metrics"
  /\ UNCHANGED <<widgets, clicked, params, res, fig_complet, fig_zoom, files,
                 written, failed, interactions>>
  /\ UNCHANGED evalVars

\* Lines 174-228: the metrics, the two static expanders, then the button:
\* without a press the run ends here.
Metrics ==
  /\ pc = "metrics"
  /\ display' = [display EXCEPT !.metrics = <<MetricsOf(res, params)>>]
  /\ pc' = IF clicked THEN "export" ELSE "done"
  /\ UNCHANGED <<widgets, clicked, params, res, fig_complet, fig_zoom, figs,
                 files, written, failed, interactions>>
  /\ UNCHANGED evalVars

\* Lines 229-234: two new figures for the export.
ExportFigures ==
  /\ pc = "export"
  /\ LET n1 == NewFigNum(figs)
         open1 == OpenFig(figs, n1, PlotOf(res, params, FALSE))
         n2 == NewFigNum(open1)
     IN /\ fig_complet' = n1
        /\ fig_zoom' = n2
        /\ figs' = OpenFig(open1, n2, PlotOf(res, params, TRUE))
  /\ pc' = "save_complet"
  /\ UNCHANGED <<widgets, clicked, params, res, display, files, written,
                 failed, interactions>>
  /\ UNCHANGED evalVars

\* Line 236: the write succeeds, or raises (OSError) and ends the run: main
\* has no try/finally.
SaveComplet ==
  /\ pc = "save_complet"
  /\ \/ /\ files' = [files EXCEPT !.complet = <<savefig(figs[fig_complet])>>]
        /\ written' = written \cup {"vibrations_complet.png"}
        /\ pc' = "save_zoom"
        /\ UNCHANGED failed
     \/ /\ failed' = TRUE
        /\ pc' = "done"
        /\ UNCHANGED <<files, written>>
  /\ UNCHANGED <<widgets, clicked, params, res, fig_complet, fig_zoom, figs,
                 display, interactions>>
  /\ UNCHANGED evalVars

\* Line 237.
\* A variant of the second write that saves the full chart under both names.
SaveZoomWrongFigure ==
  /\ pc = "save_zoom"
  /\ \/ /\ files' = [files EXCEPT !.zoom = <<savefig(figs[fig_complet])>>]
        /\ written' = written \cup {"vibrations_zoom.png"}
        /\ pc' = "close_all"
        /\ UNCHANGED failed
     \/ /\ failed' = TRUE
        /\ pc' = "done"
        /\ UNCHANGED <<files, written>>
  /\ UNCHANGED <<widgets, clicked, params, res, fig_complet, fig_zoom, figs,
                 display, interactions>>
  /\ UNCHANGED evalVars

SaveZoom ==
  /\ pc = "save_zoom"
  /\ \/ /\ files' = [files EXCEPT !.zoom = <<savefig(figs[fig_zoom])>>]
        /\ written' = written \cup {"vibrations_zoom.png"}
        /\ pc' = "close_all"
        /\ UNCHANGED failed
     \/ /\ failed' = TRUE
        /\ pc' = "done"
        /\ UNCHANGED <<files, written>>
  /\ UNCHANGED <<widgets, clicked, params, res, fig_complet, fig_zoom, figs,
                 display, interactions>>
  /\ UNCHANGED evalVars

\* Lines 238-240: plt.close('all'); st.sidebar.success(...).
CloseAllAndReport ==
  /\ pc = "close_all"
  /\ figs' = <<>>
  /\ display' = [display EXCEPT !.success = TRUE]
  /\ pc' = "done"
  /\ UNCHANGED <<widgets, clicked, params, res, fig_complet, fig_zoom, files,
                 written, failed, interactions>>
  /\ UNCHANGED evalVars

\* The user moves a slider while the page is idle: the script runs again, the
\* button reads False in that run.
MoveSlider ==
  /\ pc = "done"
  /\ interactions < MaxInteractions
  /\ \E n \in SliderNames : \E v \in SliderPicks[n] :
       /\ v # widgets[n]
       /\ widgets' = [widgets EXCEPT ![n] = v]
  /\ clicked' = FALSE
  /\ written' = {}
  /\ failed' = FALSE
  /\ pc' = "start"
  /\ interactions' = interactions + 1
  /\ UNCHANGED <<params, res, fig_complet, fig_zoom, figs, display, files>>
  /\ UNCHANGED evalVars

\* The user presses "Sauvegarder les graphiques": the script runs again with
\* the button reading True.
PressSave ==
  /\ pc = "done"
  /\ interactions < MaxInteractions
  /\ clicked' = TRUE
  /\ written' = {}
  /\ failed' = FALSE
  /\ pc' = "start"
  /\ interactions' = interactions + 1
  /\ UNCHANGED <<widgets, params, res, fig_complet, fig_zoom, figs, display,
                 files>>
  /\ UNCHANGED evalVars

Init ==
  /\ InitUI
  /\ call_args = Defaults
  /\ call_ret = Pending

Next ==
  \/ ReadSliders
  \/ Compute
  \/ PlotComplet
  \/ ShowComplet
  \/ PlotZoom
  \/ ShowZoom
  \/ Metrics
  \/ ExportFigures
  \/ SaveComplet
  \/ SaveZoom
  \/ CloseAllAndReport
  \/ MoveSlider
  \/ PressSave

Spec == Init /\ [][Next]_vars

Returned == call_ret.outcome = "returned"

Series(r) == <<r.x_sans, r.x_sous, r.x_critique, r.x_suramorti>>

----------------------------------------------------------------------------
(* Claims about the evaluator *)

\* C1: a call with xi_sous outside (0,1), xi_suramorti <= 1 or omega_0 <= 0
\* ends rejected and returns no trajectory.
C1_InvalidInputRejected ==
  (call_ret # Pending /\ ~Valid(call_args)) => call_ret.outcome = "rejected"

\* C2: for a valid parameter set the time grid, the four displacement
\* sequences and the two envelopes all have the length N of the time grid,
\* which runs in increasing samples from 0 to t_max.
C2_SameLengthSameGrid ==
  (Returned /\ Valid(call_args)) =>
    LET r == call_ret
    IN /\ Len(r.t) = NumSamples
       /\ \A k \in 1..4 : Len(Series(r)[k]) = Len(r.t)
       /\ Len(r.enveloppe_sous_pos) = Len(r.t)
       /\ Len(r.enveloppe_sous_neg) = Len(r.t)
       /\ r.t[1] = Zero
       /\ r.t[Len(r.t)] = Dec(call_args.t_max)
       /\ \A i \in 1..(Len(r.t) - 1) : Lt(r.t[i], r.t[i + 1])

C2_Witness == Returned /\ Valid(call_args) /\ call_args.t_max = 300

\* C3: for a valid parameter set the first sample of each of the four
\* displacement sequences equals x0.
C3_FirstSampleIsX0 ==
  (Returned /\ Valid(call_args)) =>
    \A k \in 1..4 : Series(call_ret)[k][1] = Dec(call_args.x0)

C3_Witness ==
  /\ Returned /\ Valid(call_args)
  /\ call_args.x0 = -100 /\ call_args.v0 = 50 /\ call_args.omega_0 = 10

\* C4: the peak amplitude is the maximum absolute value over every sample of
\* the four displacement sequences: at least |x| for each sample, and attained.
C4_PeakIsMaxAbs ==
  (Returned /\ Valid(call_args)) =>
    LET r == call_ret
    IN /\ \A k \in 1..4 : \A i \in 1..Len(Series(r)[k]) :
            Le(Abs(Series(r)[k][i]), r.amplitude_max)
       /\ \E k \in 1..4 : \E i \in 1..Len(Series(r)[k]) :
            Abs(Series(r)[k][i]) = r.amplitude_max

\* C5: for a valid parameter set the underdamped trajectory lies between the
\* two envelopes at every sample, the negative envelope being the exact
\* negation of the positive one.
C5_EnvelopeBounds ==
  (Returned /\ Valid(call_args)) =>
    LET r == call_ret
    IN \A i \in 1..Len(r.t) :
         /\ Le(r.enveloppe_sous_neg[i], r.x_sous[i])
         /\ Le(r.x_sous[i], r.enveloppe_sous_pos[i])
         /\ r.enveloppe_sous_neg[i] = Neg(r.enveloppe_sous_pos[i])

\* A few units in the last place: 2^-(P - 4).
RoundingSlack == Round(1, 1, -(P - 4))

\* C5 as amended: for a valid parameter set the underdamped trajectory lies
\* between the two envelopes up to rounding, |x_sous[i]| <= env[i]*(1 + slack)
\* with a slack of a few units in the last place, and the negative envelope is
\* the exact negation of the positive one.
C5_EnvelopeBoundsUpToRounding ==
  (Returned /\ Valid(call_args)) =>
    LET r == call_ret
    IN \A i \in 1..Len(r.t) :
         /\ Le(Abs(r.x_sous[i]),
               Mul(r.enveloppe_sous_pos[i], Add(One, RoundingSlack)))
         /\ r.enveloppe_sous_neg[i] = Neg(r.enveloppe_sous_pos[i])

C5_Witness ==
  /\ Returned /\ Valid(call_args)
  /\ \E i \in 1..Len(call_ret.t) :
       Lt(call_ret.enveloppe_sous_pos[i], Abs(call_ret.x_sous[i]))

----------------------------------------------------------------------------
(* Claims about main *)

InRange(p) ==
  /\ p.omega_0 >= 10 /\ p.omega_0 <= 1000
  /\ p.x0 >= 10 /\ p.x0 <= 1000
  /\ p.v0 >= -500 /\ p.v0 <= 500
  /\ p.t_max >= 200 /\ p.t_max <= 2000 /\ p.t_max % 100 = 0
  /\ p.xi_sous >= 1 /\ p.xi_sous <= 99
  /\ p.xi_suramorti >= 101 /\ p.xi_suramorti <= 300

\* C7: in every state of the UI the parameters main passes to
\* analyse_vibrations lie in omega_0 [0.1,10], x0 [0.1,10], v0 [-5,5], t_max
\* an integer in [2,20], xi_sous [0.01,0.99], xi_suramorti [1.01,3.0], so the
\* evaluator is never called from the UI on an invalid parameter set.
C7_ParametersInRange ==
  /\ InRange(widgets)
  /\ pc # "start" => (InRange(params) /\ Valid(params))

C7_Witness ==
  /\ pc = "plot_complet"
  /\ params.xi_suramorti = 300
  /\ params.xi_sous = 1

BothFiles == {"vibrations_complet.png", "vibrations_zoom.png"}

\* C8: once a run has ended, both charts (curves, y limits) and the metrics
\* on the page are those of analyse_vibrations evaluated on the current
\* slider values: nothing computed for earlier values is shown.
C8_RenderedIsCurrent ==
  pc = "done" =>
    LET r == Evaluate(widgets)
        t_max == Dec(widgets.t_max)
    IN /\ display.complet =
            <<create_plot(r, t_max, widgets.xi_sous, widgets.xi_suramorti, FALSE)>>
       /\ display.zoom =
            <<create_plot(r, t_max, widgets.xi_sous, widgets.xi_suramorti, TRUE)>>
       /\ display.metrics = <<MetricsOf(r, widgets)>>

C8_Witness ==
  /\ pc = "done"
  /\ interactions = 2
  /\ widgets.omega_0 = 1000
  /\ widgets.t_max = 200
  /\ display.metrics # <<>>

\* C9 as first stated: without a press no file is written; with a press
\* exactly two files are written, rendered from the charts shown in that run,
\* and the success message comes only after both.  (Between an interaction
\* and the first step of the run it starts, the page still shows the elements
\* of the run before; the message of the current run is on the page once
\* pc has left "start".)
C9_PressedWritesBoth ==
  /\ ~clicked => written = {}
  /\ (pc # "start" /\ display.success) => written = BothFiles
  /\ (pc = "done" /\ clicked) =>
       /\ written = BothFiles
       /\ files.complet = <<savefig(display.complet[1])>>
       /\ files.zoom = <<savefig(display.zoom[1])>>

\* C9 as amended: without a press no file is written; with a press and both
\* writes succeeding exactly two files are written; every file a run writes
\* is rendered from the chart shown in that run; the success message comes
\* only after both files are written; when a write fails the run ends with
\* fewer files and no success message.
C9_ExportOnRequest ==
  /\ ~clicked => written = {}
  /\ written \subseteq BothFiles
  /\ (pc # "start" /\ display.success) => (written = BothFiles /\ ~failed)
  /\ (pc = "done" /\ clicked /\ ~failed) =>
       (written = BothFiles /\ display.success)
  /\ failed => (pc = "done" /\ written # BothFiles /\ ~display.success)
  /\ "vibrations_complet.png" \in written =>
       files.complet = <<savefig(display.complet[1])>>
  /\ "vibrations_zoom.png" \in written =>
       files.zoom = <<savefig(display.zoom[1])>>

C9_Witness ==
  /\ pc = "done"
  /\ clicked
  /\ display.success
  /\ written = BothFiles
  /\ widgets # Defaults

\* C10: every figure create_plot made during a run is closed when the run
\* ends, on every path, a failed write included.
C10_FiguresClosedAtRunEnd == pc = "done" => DOMAIN figs = {}

====
